---- MODULE Spec2Model ----
(***************************************************************************)
(* A model of gw2f::pf::PackFile<TFileType> (gw2formats/pf/PackFile.h):    *)
(* the shared, reference-counted byte buffer (m_data), the header view     *)
(* (m_header), the constructors, copy operations, load/assign, type() and  *)
(* the two chunk() lookups.                                                *)
(*                                                                         *)
(* Buffers are sequences of bytes and every header field is read back from *)
(* those bytes.  Unsigned integers wider than the model checker's integers *)
(* are kept as little-endian sequences of 16-bit limbs, so that the 32-bit *)
(* fields and the size_t arithmetic of the scan keep their width.          *)
(***************************************************************************)
EXTENDS Integers, Sequences, FiniteSets, TLC

(***************************************************************************)
(* Bounds of the model.                                                    *)
(***************************************************************************)
\* number of PackFile objects the program holds
NumContainers == 2
\* largest number of chunks in a generated chunk table
MaxChunks == 2
\* largest payload of a generated chunk, in 4-byte words
MaxPayloadWords == 2

(***************************************************************************)
(* Layout constants of the packed structures.                              *)
(***************************************************************************)
\* sizeof(FileHeader): 2 + 2 + 2 + 2 + 4, packed
SizeofFileHeader == 12
\* sizeof(ChunkHeader): 4 + 4 + 2 + 2 + 4, packed
SizeofChunkHeader == 16
\* offsetof(ChunkHeader, nextChunkOffset)
OffsetofNextChunkOffset == 4
\* sizeof(chunkHead->nextChunkOffset)
SizeofNextChunkOffset == 4
\* offsetof(ChunkHeader, headerSize)
OffsetofHeaderSize == 10
\* offsetof(FileHeader, contentType)
OffsetofContentType == 8

\* the null pointer / the empty shared_ptr
NULL == 0

(***************************************************************************)
(* Unsigned integers of a fixed width, as little-endian 16-bit limbs.      *)
(***************************************************************************)
Limb == 256 * 256

\* the k-limb value of a small natural number n (n < 2^31)
FromNat(n, k) ==
    [i \in 1..k |-> IF i = 1 THEN n % Limb ELSE IF i = 2 THEN n \div Limb ELSE 0]

\* conversion to an unsigned type of k limbs: zero extension or truncation
Convert(a, k) == [i \in 1..k |-> IF i <= Len(a) THEN a[i] ELSE 0]

\* the limbs of a + b from limb i on, given the carry into limb i
RECURSIVE AddFrom(_, _, _, _)
AddFrom(a, b, i, carry) ==
    IF i > Len(a) THEN << >>
    ELSE LET t == a[i] + b[i] + carry
         IN  << t % Limb >> \o AddFrom(a, b, i + 1, t \div Limb)

\* a + b modulo 2^(16 * Len(a)), for operands of the same width
Add(a, b) == AddFrom(a, b, 1, 0)

Complement(a) == [i \in 1..Len(a) |-> Limb - 1 - a[i]]

\* a - b modulo 2^(16 * Len(a)), for operands of the same width: a + ~b + 1
Sub(a, b) == AddFrom(a, Complement(b), 1, 1)

RECURSIVE LessFrom(_, _, _)
LessFrom(a, b, i) ==
    IF i = 0 THEN FALSE
    ELSE IF a[i] # b[i] THEN a[i] < b[i]
    ELSE LessFrom(a, b, i-1)

\* a < b, for operands of the same width
Less(a, b) == LessFrom(a, b, Len(a))

\* whether a fits the model checker's naturals
IsSmall(a) == \A i \in 1..Len(a) : (i = 2 => a[i] < 16384) /\ (i > 2 => a[i] = 0)

\* the natural number a small value stands for
ToNat(a) == a[1] + (IF Len(a) >= 2 THEN a[2] * Limb ELSE 0)

(***************************************************************************)
(* Reading and writing fields of a byte buffer (x86: little-endian).       *)
(***************************************************************************)
\* the two bytes of a 16-bit value
Bytes16(n) == << n % 256, n \div 256 >>

\* the four bytes of a 32-bit value given as two limbs
Bytes32(a) == Bytes16(a[1]) \o Bytes16(a[2])

\* the uint16 at byte offset off (from 0) of buf
ReadU16(buf, off) == buf[off + 1] + 256 * buf[off + 2]

\* the uint32 at byte offset off (from 0) of buf, as two limbs
ReadU32(buf, off) == << ReadU16(buf, off), ReadU16(buf, off + 2) >>

(***************************************************************************)
(* Four-character codes.                                                   *)
(***************************************************************************)
\* the uint32 whose bytes in memory are a, b, c, d
Fcc(a, b, c, d) == << a + 256 * b, c + 256 * d >>

\* the template parameter of this instantiation: fcc::AMAT (AmatPackFile)
TFileType == Fcc(65, 77, 65, 84)
\* the fourcc of another instantiation: fcc::MODL
OtherFileType == Fcc(77, 79, 68, 76)

\* identifiers carried by the chunks of the generated tables
IdY == Fcc(71, 82, 77, 84)
IdZ == Fcc(68, 88, 57, 83)
\* an identifier no generated chunk carries
IdW == Fcc(66, 71, 70, 88)
ChunkIds == {IdY, IdZ}
LookupIds == ChunkIds \cup {IdW}

(***************************************************************************)
(* The callers' inputs: byte buffers built field by field.                 *)
(***************************************************************************)
\* the bytes of a FileHeader
FileHeaderBytes(m0, m1, descriptorType, zero, headerSize, contentType) ==
    << m0, m1 >> \o Bytes16(descriptorType) \o Bytes16(zero)
        \o Bytes16(headerSize) \o Bytes32(contentType)

\* the n bytes that follow the header of the j-th chunk
Filler(j, n) == [i \in 1..n |-> 16 * j + i]

\* the bytes of a ChunkHeader followed by s.body further bytes
ChunkBytes(s, j) ==
    Bytes32(s.magic) \o Bytes32(s.nextChunkOffset) \o Bytes16(s.version)
        \o Bytes16(s.headerSize) \o Bytes32(s.descriptorOffset) \o Filler(j, s.body)

RECURSIVE TableBytes(_, _)
TableBytes(tbl, j) ==
    IF j > Len(tbl) THEN << >> ELSE ChunkBytes(tbl[j], j) \o TableBytes(tbl, j + 1)

Shape(nco, hs, body) ==
    [nextChunkOffset |-> nco, version |-> 1, headerSize |-> hs,
     descriptorOffset |-> << 0, 0 >>, body |-> body]

\* chunks as the format writes them: a 16-byte header, then the payload
WrittenShapes ==
    { Shape(FromNat(8 + 4 * w, 2), SizeofChunkHeader, 4 * w) : w \in 0..MaxPayloadWords }

\* chunks whose header fields disagree with the bytes that follow
OddShapes ==
    { Shape(FromNat(8, 2), 12, 8),
      Shape(FromNat(0, 2), 16, 0),
      Shape(FromNat(8, 2), 32, 0),
      Shape(FromNat(24, 2), 16, 8),
      Shape(<< Limb - 32, Limb - 1 >>, 16, 0),
      Shape(<< Limb - 8, Limb - 1 >>, 16, 0),
      Shape(<< Limb - 1, Limb - 1 >>, 16, 0) }

WithMagic(s, id) == [magic |-> id] @@ s

Chunks(shapes) == { WithMagic(s, id) : s \in shapes, id \in ChunkIds }

Tables(shapes, n) == UNION { [1..m -> Chunks(shapes)] : m \in 0..n }

\* a caller's argument: the pointer (null or not) and the bytes it points to;
\* p_size is the number of those bytes, or size for a null pointer
Input(isNull, size, bytes, tbl, cut) ==
    [isNull |-> isNull, size |-> size, bytes |-> bytes, table |-> tbl, cut |-> cut]

\* a buffer with a valid FileHeader, the chunk table tbl and its last cut bytes
\* missing
Packed(fileHeaderSize, tbl, cut) ==
    LET all == FileHeaderBytes(80, 70, 0, 0, fileHeaderSize, TFileType) \o TableBytes(tbl, 1)
        kept == SubSeq(all, 1, Len(all) - cut)
    IN Input(FALSE, Len(kept), kept, tbl, cut)

Raw(bytes) == Input(FALSE, Len(bytes), bytes, << >>, 0)

\* the inputs of the scan: every table of up to MaxChunks chunks of which at
\* most one is odd, whole or cut in its last chunk
Cuts == {0, 5}
ScanTables ==
    { tbl \in Tables(WrittenShapes \cup OddShapes, MaxChunks) :
        \A i, j \in 1..Len(tbl) :
            i # j =>
                \/ [tbl[i] EXCEPT !.magic = IdY] \in Chunks(WrittenShapes)
                \/ [tbl[j] EXCEPT !.magic = IdY] \in Chunks(WrittenShapes) }
ScanInputs ==
    UNION { { Packed(16, tbl, cut) : cut \in { x \in Cuts : x = 0 \/ tbl # << >> } } :
              tbl \in ScanTables }

\* the inputs of the life cycle: refused ones and accepted ones
RejectedInputs ==
    { Input(TRUE, 20, << >>, << >>, 0),
      Raw(<< >>),
      Raw(SubSeq(FileHeaderBytes(80, 70, 0, 0, 12, TFileType), 1, 11)),
      Raw(FileHeaderBytes(80, 71, 0, 0, 12, TFileType)),
      Raw(FileHeaderBytes(81, 70, 0, 0, 12, TFileType)),
      Raw(FileHeaderBytes(80, 70, 0, 0, 12, OtherFileType)
            \o ChunkBytes(WithMagic(Shape(FromNat(8, 2), 16, 0), IdY), 1)) }
AcceptedInputs ==
    { Packed(12, << WithMagic(Shape(FromNat(12, 2), 16, 4), IdY) >>, 0),
      Packed(16, << WithMagic(Shape(FromNat(8, 2), 16, 0), IdZ),
                    WithMagic(Shape(FromNat(16, 2), 16, 8), IdY) >>, 0) }
LifeInputs == RejectedInputs \cup AcceptedInputs

\* the files load() may be given: one that cannot be opened, an empty one, or
\* one that holds the bytes of an input
NoFile == [isNull |-> TRUE, size |-> 0, bytes |-> << >>, table |-> << >>, cut |-> 1]
Files == {NoFile, Raw(<< >>)} \cup { i \in LifeInputs : ~i.isNull /\ i.size > 12 }

(***************************************************************************)
(* The state of the program.                                               *)
(***************************************************************************)
VARIABLES
    size_t,     \* the width of size_t and of pointers in this build: 32 or 64
    alive,      \* the PackFile objects constructed and not yet destroyed
    m_data,     \* per object: the buffer its shared_ptr owns, or NULL
    m_header,   \* per object: the buffer whose first byte it views, or NULL
    heap,       \* the DataVectors alive: buffer -> its bytes
    origin,     \* per DataVector alive: the caller's input it was copied from
    fault,      \* "none", or how the execution left defined behaviour
    call        \* the latest call on an object, and what it returned

vars == << size_t, alive, m_data, m_header, heap, origin, fault, call >>

Containers == 1..NumContainers
\* places a DataVector can be allocated at
Buffers == 1..(NumContainers + 1)
\* a pointer read through a null shared_ptr
WILD == 0 - 1

\* the number of limbs of a size_t
K == size_t \div 16

\* the address of the first byte of a buffer, as a pointer of k limbs
DataAddr(b, k) == FromNat(4194304 + 4096 * b, k)

\* the buffers still owned by some shared_ptr
Collect(h, md, al) == [b \in ({ md[c] : c \in al } \ {NULL}) \cap DOMAIN h |-> h[b]]

NoInput == Input(TRUE, 0, << >>, << >>, 0)

(***************************************************************************)
(* type()                                                                  *)
(***************************************************************************)
type(hdr) == IF hdr # NULL THEN TFileType ELSE << 0, 0 >>

(***************************************************************************)
(* chunk(p_identifier, po_size)                                            *)
(***************************************************************************)
\* what a call comes to: kind "found" (the returned pointer is off bytes into
\* buffer buf, po_size is size), "absent" (nullptr, po_size 0), "hang" (the
\* loop never ends) or "wild" (a ChunkHeader is read outside the buffer);
\* iters counts the ChunkHeaders read
Outcome(kind, buf, off, size, iters) ==
    [kind |-> kind, buf |-> buf, off |-> off, size |-> size, iters |-> iters]
Absent(n) == Outcome("absent", NULL, 0, << 0, 0 >>, n)

\* the span without sizeof(chunkHead->nextChunkOffset): a header counted from
\* the wrong base
ChunkSize_FromFieldStart(nextChunkOffset, k) ==
    Add(Convert(nextChunkOffset, k), FromNat(OffsetofNextChunkOffset, k))

\* chunkHead->nextChunkOffset + offsetof(ChunkHeader, nextChunkOffset)
\*     + sizeof(chunkHead->nextChunkOffset), in size_t (k limbs)
ChunkSize(nextChunkOffset, k) ==
    Add(Add(Convert(nextChunkOffset, k), FromNat(OffsetofNextChunkOffset, k)),
        FromNat(SizeofNextChunkOffset, k))

\* the payload size with sizeof(ChunkHeader) in place of the headerSize field
PayloadSize_NominalHeader(chunkSize, headerSize) ==
    Convert(Sub(chunkSize, FromNat(SizeofChunkHeader, Len(chunkSize))), 2)

\* po_size = chunkSize - chunkHead->headerSize, converted to uint32
PayloadSize(chunkSize, headerSize) ==
    Convert(Sub(chunkSize, FromNat(headerSize, Len(chunkSize))), 2)

\* the while loop, from the position pointer; seen holds the positions of the
\* ChunkHeaders read so far, n their number
RECURSIVE ScanLoop(_, _, _, _, _, _, _)
ScanLoop(bytes, b, k, id, pointer, seen, n) ==
    LET begin == DataAddr(b, k)
        end   == Add(begin, FromNat(Len(bytes), k))
    IN  IF ~Less(pointer, end) THEN Absent(n)
        ELSE IF Less(Sub(end, pointer), FromNat(SizeofChunkHeader, k)) THEN Absent(n)
        ELSE IF Less(pointer, begin) THEN Outcome("wild", NULL, 0, << 0, 0 >>, n)
        ELSE IF pointer \in seen THEN Outcome("hang", NULL, 0, << 0, 0 >>, n)
        ELSE LET off       == ToNat(Sub(pointer, begin))
                 chunkSize == ChunkSize(ReadU32(bytes, off + OffsetofNextChunkOffset), k)
             IN  IF ReadU32(bytes, off) = id
                 THEN Outcome("found", b, off + SizeofChunkHeader,
                              PayloadSize(chunkSize, ReadU16(bytes, off + OffsetofHeaderSize)),
                              n + 1)
                 ELSE ScanLoop(bytes, b, k, id, Add(pointer, chunkSize),
                               seen \cup {pointer}, n + 1)

\* chunk(id) of an object whose fields are hdr and data, over the heap h
chunk(hdr, data, h, k, id) ==
    IF hdr = NULL THEN Absent(0)
    ELSE ScanLoop(h[data], data, k, id,
                  Add(DataAddr(data, k), FromNat(SizeofFileHeader, k)), {}, 0)

(***************************************************************************)
(* The record of a call                                                    *)
(***************************************************************************)
\* the objects other than c that own the buffer c owns
Sharing(c) == { b \in alive \ {c} : m_data[b] # NULL /\ m_data[b] = m_data[c] }

\* op on object c (copying from other): shared holds the objects that owned
\* c's buffer with it when the call began, ok is what load/assign returned;
\* for a lookup of id, r is what the raw lookup came to and made holds the
\* arguments of each run of the registry's constructor
Call(op, c, other, ok, id, r, made) ==
    [op |-> op, c |-> c, other |-> other, shared |-> Sharing(c), ok |-> ok,
     id |-> id, r |-> r, made |-> made]
Did(op, c, other, ok) == Call(op, c, other, ok, << 0, 0 >>, Absent(0), << >>)
Looked(op, c, id, r, made) == Call(op, c, NULL, TRUE, id, r, made)

(***************************************************************************)
(* assign(p_data, p_size) and load(p_filename)                             *)
(***************************************************************************)
\* the checks without the one of contentType
HeaderChecks_AnyContentType(in) ==
    /\ ~(in.isNull \/ in.size = 0)
    /\ ~(in.size < SizeofFileHeader)
    /\ ~(in.bytes[1] # 80 \/ in.bytes[2] # 70)

\* the four checks assign makes before it touches the object
HeaderChecks(in) ==
    /\ ~(in.isNull \/ in.size = 0)
    /\ ~(in.size < SizeofFileHeader)
    /\ ~(in.bytes[1] # 80 \/ in.bytes[2] # 70)
    /\ ~(ReadU32(in.bytes, OffsetofContentType) # TFileType)

\* where new DataVector puts the vector: any place no live vector is at
Fresh == Buffers \ DOMAIN heap

\* the replacement done in place, m_data->assign(p_data, p_data + p_size),
\* when the object already owns a vector
Replace_InPlace(c, in, b) ==
    IF m_data[c] = NULL
    THEN /\ m_data' = [m_data EXCEPT ![c] = b]
         /\ m_header' = [m_header EXCEPT ![c] = b]
         /\ heap' = (b :> in.bytes) @@ heap
         /\ origin' = (b :> in) @@ origin
    ELSE /\ m_data' = m_data
         /\ m_header' = [m_header EXCEPT ![c] = m_data[c]]
         /\ heap' = [heap EXCEPT ![m_data[c]] = in.bytes]
         /\ origin' = [origin EXCEPT ![m_data[c]] = in]

\* m_data.reset(new DataVector(p_size)); memcpy; m_header = m_data->data():
\* the new vector b is allocated while the old one is still owned
Replace(c, in, b) ==
    /\ m_data' = [m_data EXCEPT ![c] = b]
    /\ m_header' = [m_header EXCEPT ![c] = b]
    /\ heap' = Collect((b :> in.bytes) @@ heap, m_data', alive')
    /\ origin' = Collect((b :> in) @@ origin, m_data', alive')

\* assign on object c, called as op
assign(c, in, op) ==
    IF HeaderChecks(in)
    THEN /\ \E b \in Fresh : Replace(c, in, b)
         /\ call' = Did(op, c, NULL, TRUE)
    ELSE /\ UNCHANGED << m_data, m_header, heap, origin >>
         /\ call' = Did(op, c, NULL, FALSE)

\* load on object c, called as op: f is NoFile when the file cannot be opened
load(c, f, op) ==
    IF f = NoFile
    THEN /\ UNCHANGED << m_data, m_header, heap, origin >>
         /\ call' = Did(op, c, NULL, FALSE)
    ELSE assign(c, f, op)

Running == fault = "none"

Assign(c, in) ==
    /\ Running /\ c \in alive
    /\ UNCHANGED alive
    /\ assign(c, in, "assign")
    /\ UNCHANGED << size_t, fault >>

Load(c, f) ==
    /\ Running /\ c \in alive
    /\ UNCHANGED alive
    /\ load(c, f, "load")
    /\ UNCHANGED << size_t, fault >>

(***************************************************************************)
(* Constructors, destructor, copy assignment                               *)
(***************************************************************************)
\* PackFile(): m_data(new DataVector), m_header(nullptr)
DefaultCtor(c) ==
    /\ Running /\ c \notin alive
    /\ alive' = alive \cup {c}
    /\ \E b \in Fresh :
          /\ m_data' = [m_data EXCEPT ![c] = b]
          /\ heap' = (b :> << >>) @@ heap
          /\ origin' = (b :> NoInput) @@ origin
    /\ m_header' = [m_header EXCEPT ![c] = NULL]
    /\ call' = Did("PackFile()", c, NULL, TRUE)
    /\ UNCHANGED << size_t, fault >>

\* PackFile(p_filename): m_header(nullptr), then load; m_data is left to its
\* own default constructor, the empty shared_ptr
FileCtor(c, f) ==
    /\ Running /\ c \notin alive
    /\ m_data[c] = NULL /\ m_header[c] = NULL
    /\ alive' = alive \cup {c}
    /\ load(c, f, "PackFile(filename)")
    /\ UNCHANGED << size_t, fault >>

\* PackFile(p_data, p_size): m_header(nullptr), then assign
DataCtor(c, in) ==
    /\ Running /\ c \notin alive
    /\ m_data[c] = NULL /\ m_header[c] = NULL
    /\ alive' = alive \cup {c}
    /\ assign(c, in, "PackFile(data,size)")
    /\ UNCHANGED << size_t, fault >>

\* the header view set only when the copied buffer holds bytes: operator=
\* without its else branch
CopyHeader_KeepsView(c, o) ==
    IF m_data[o] # NULL
    THEN /\ m_header' = [m_header EXCEPT ![c] =
                            IF Len(heap[m_data[o]]) # 0 THEN m_data[o] ELSE m_header[c]]
         /\ fault' = fault
    ELSE /\ \E h \in {NULL, WILD} : m_header' = [m_header EXCEPT ![c] = h]
         /\ fault' = "null_deref"

\* the header view after m_data has been copied from p_other: m_data->size()
\* decides; through an empty shared_ptr that read is undefined, and the view
\* is whatever it leaves
CopyHeader(c, o) ==
    IF m_data[o] # NULL
    THEN /\ m_header' = [m_header EXCEPT ![c] =
                            IF Len(heap[m_data[o]]) # 0 THEN m_data[o] ELSE NULL]
         /\ fault' = fault
    ELSE /\ \E h \in {NULL, WILD} : m_header' = [m_header EXCEPT ![c] = h]
         /\ fault' = "null_deref"

\* PackFile(p_other)
CopyCtor(c, o) ==
    /\ Running /\ c \notin alive /\ o \in alive
    /\ alive' = alive \cup {c}
    /\ m_data' = [m_data EXCEPT ![c] = m_data[o]]
    /\ CopyHeader(c, o)
    /\ call' = Did("PackFile(other)", c, o, TRUE)
    /\ UNCHANGED << size_t, heap, origin >>

\* operator=(p_other)
CopyAssign(c, o) ==
    /\ Running /\ c \in alive /\ o \in alive
    /\ UNCHANGED alive
    /\ m_data' = [m_data EXCEPT ![c] = m_data[o]]
    /\ CopyHeader(c, o)
    /\ heap' = Collect(heap, m_data', alive')
    /\ origin' = Collect(origin, m_data', alive')
    /\ call' = Did("operator=", c, o, TRUE)
    /\ UNCHANGED size_t

\* ~PackFile(): the shared_ptr lets go of its buffer
Dtor(c) ==
    /\ Running /\ c \in alive
    /\ alive' = alive \ {c}
    /\ m_data' = [m_data EXCEPT ![c] = NULL]
    /\ m_header' = [m_header EXCEPT ![c] = NULL]
    /\ heap' = Collect(heap, m_data', alive')
    /\ origin' = Collect(origin, m_data', alive')
    /\ call' = Did("~PackFile()", c, NULL, TRUE)
    /\ UNCHANGED << size_t, fault >>

(***************************************************************************)
(* The two lookups as calls                                                *)
(***************************************************************************)
FaultOf(r) ==
    IF r.kind = "hang" THEN "hang" ELSE IF r.kind = "wild" THEN "oob_read" ELSE fault

\* const byte* chunk(dword p_identifier, uint32& po_size)
Chunk(c, id) ==
    /\ Running /\ c \in alive
    /\ \E r \in {chunk(m_header[c], m_data[c], heap, K, id)} :
           /\ call' = Looked("chunk", c, id, r, << >>)
           /\ fault' = FaultOf(r)
    /\ UNCHANGED << size_t, alive, m_data, m_header, heap, origin >>

\* make_shared<Type>(data, size): the registry's constructor runs on the
\* pointer and the size the raw lookup left, whatever they are, and the
\* shared_ptr returned owns the record it made
MakeShared(r) ==
    << [buf |-> r.buf, off |-> r.off, size |-> r.size] >>

\* template <dword TId> chunk()
TypedChunk(c, id) ==
    /\ Running /\ c \in alive
    /\ \E r \in {chunk(m_header[c], m_data[c], heap, K, id)} :
           /\ call' = Looked("chunk<TId>", c, id, r,
                             IF r.kind \in {"found", "absent"} THEN MakeShared(r) ELSE << >>)
           /\ fault' = FaultOf(r)
    /\ UNCHANGED << size_t, alive, m_data, m_header, heap, origin >>

(***************************************************************************)
(* The life cycle of the objects                                           *)
(***************************************************************************)
Init ==
    /\ size_t \in {32, 64}
    /\ alive = {}
    /\ m_data = [c \in Containers |-> NULL]
    /\ m_header = [c \in Containers |-> NULL]
    /\ heap = << >>
    /\ origin = << >>
    /\ fault = "none"
    /\ call = Did("none", NULL, NULL, FALSE)

Next ==
    \/ \E c \in Containers : DefaultCtor(c)
    \/ \E c \in Containers, f \in Files : FileCtor(c, f)
    \/ \E c \in Containers, in \in LifeInputs : DataCtor(c, in)
    \/ \E c \in Containers, o \in Containers : CopyCtor(c, o)
    \/ \E c \in Containers, o \in Containers : CopyAssign(c, o)
    \/ \E c \in Containers : Dtor(c)
    \/ \E c \in Containers, in \in LifeInputs : Assign(c, in)
    \/ \E c \in Containers, f \in Files : Load(c, f)
    \/ \E c \in Containers, id \in LookupIds : Chunk(c, id)
    \/ \E c \in Containers, id \in LookupIds : TypedChunk(c, id)

Spec == Init /\ [][Next]_vars

(***************************************************************************)
(* The scan on its own: one object constructed from a generated buffer     *)
(***************************************************************************)
InitScan ==
    /\ size_t \in {32, 64}
    /\ \E in \in ScanInputs :
          /\ HeaderChecks(in)
          /\ alive = {1}
          /\ m_data = [c \in Containers |-> IF c = 1 THEN 1 ELSE NULL]
          /\ m_header = [c \in Containers |-> IF c = 1 THEN 1 ELSE NULL]
          /\ heap = (1 :> in.bytes)
          /\ origin = (1 :> in)
          /\ call = Did("PackFile(data,size)", 1, NULL, TRUE)
    /\ fault = "none"

NextScan == \E c \in Containers, id \in LookupIds : Chunk(c, id)

SpecScan == InitScan /\ [][NextScan]_vars

(***************************************************************************)
(* The objects that begin with the default constructor                     *)
(***************************************************************************)
NextDefault ==
    \/ \E c \in Containers : DefaultCtor(c)
    \/ \E c \in Containers, o \in Containers : CopyCtor(c, o)
    \/ \E c \in Containers, o \in Containers : CopyAssign(c, o)
    \/ \E c \in Containers : Dtor(c)
    \/ \E c \in Containers, in \in LifeInputs : Assign(c, in)
    \/ \E c \in Containers, f \in Files : Load(c, f)
    \/ \E c \in Containers, id \in LookupIds : Chunk(c, id)

SpecDefault == Init /\ [][NextDefault]_vars

(***************************************************************************)
(* Vocabulary of the properties                                            *)
(***************************************************************************)
\* object c holds a buffer and a header view
Loaded(c) == c \in alive /\ m_data[c] \in DOMAIN heap /\ m_header[c] \in DOMAIN heap

\* the latest call was the raw lookup, on an object that holds a buffer
RawLookup == call.op = "chunk" /\ Loaded(call.c)

\* the input the bytes of the looked-up object were copied from
Given == origin[m_data[call.c]]

\* nextChunkOffset + 8 as a number, without wrap-around (80 bits)
Span(nextChunkOffset) == Add(Convert(nextChunkOffset, 5), FromNat(8, 5))

\* the bytes of h that an outcome's pointer and size designate, as far as the
\* buffer goes
ViewBytes(h, r) ==
    IF r.kind # "found" THEN << >>
    ELSE LET n == Len(h[r.buf])
             e == IF IsSmall(r.size) /\ r.off + ToNat(r.size) <= n
                  THEN r.off + ToNat(r.size) ELSE n
         IN  SubSeq(h[r.buf], r.off + 1, e)

\* a table of chunks written whole, each with headerSize 16 and
\* nextChunkOffset = 8 + payload length
IsWritten(in) ==
    /\ in.cut = 0
    /\ \A j \in 1..Len(in.table) :
          /\ in.table[j].headerSize = 16
          /\ in.table[j].nextChunkOffset = FromNat(8 + in.table[j].body, 2)

Carriers(tbl, id) == { j \in 1..Len(tbl) : tbl[j].magic = id }
First(tbl, id) == CHOOSE j \in Carriers(tbl, id) : \A i \in Carriers(tbl, id) : j <= i

\* where the payload of the j-th chunk of a written table starts
RECURSIVE PayloadStart(_, _)
PayloadStart(tbl, j) ==
    IF j = 1 THEN 12 + 16 ELSE PayloadStart(tbl, j - 1) + tbl[j - 1].body + 16

(***************************************************************************)
(* C2: on a loaded container whose table is N >= 0 chunks written with     *)
(* headerSize 16 and nextChunkOffset = 8 + payload length, chunk(id, size) *)
(* returns, for an identifier some chunk carries, the payload of the first *)
(* chunk in storage order that carries it (its first byte, its length, its *)
(* bytes), and nullptr with size 0 for an identifier no chunk carries.     *)
(***************************************************************************)
C2_FirstChunkInStorageOrder ==
    (RawLookup /\ IsWritten(Given)) =>
        LET tbl == Given.table
            r   == call.r
        IN  IF Carriers(tbl, call.id) # {}
            THEN LET j == First(tbl, call.id)
                 IN  /\ r.kind = "found"
                     /\ r.buf = m_data[call.c]
                     /\ r.off = PayloadStart(tbl, j)
                     /\ r.size = FromNat(tbl[j].body, 2)
                     /\ ViewBytes(heap, r) = Filler(j, tbl[j].body)
            ELSE r.kind = "absent" /\ r.buf = NULL /\ r.size = << 0, 0 >>

\* a lookup that found the first of two chunks carrying the identifier, the
\* two of different payload lengths
C2_Witness ==
    /\ RawLookup /\ IsWritten(Given)
    /\ Len(Given.table) >= 2
    /\ Carriers(Given.table, call.id) = {1, 2}
    /\ Given.table[1].body # Given.table[2].body
    /\ call.r.kind = "found"
    /\ call.r.size = FromNat(Given.table[1].body, 2)

(***************************************************************************)
(* C3: chunk(id, size) returns absent when the chunk carrying id declares  *)
(* a span (nextChunkOffset + 8) larger than the bytes left from its header *)
(* to the end of the buffer; it never returns a view whose start, or start *)
(* + size, lies past the end of the buffer, and the scan reads no          *)
(* ChunkHeader outside the buffer.                                         *)
(***************************************************************************)
C3_ViewsStayInsideTheBuffer ==
    RawLookup =>
        LET bytes == heap[m_data[call.c]]
            r     == call.r
        IN  /\ r.kind # "wild"
            /\ r.kind = "found" =>
                  /\ r.off <= Len(bytes)
                  /\ IsSmall(r.size) /\ r.off + ToNat(r.size) <= Len(bytes)
                  /\ ~Less(FromNat(Len(bytes) - (r.off - 16), 5),
                           Span(ReadU32(bytes, r.off - 16 + 4)))

(***************************************************************************)
(* C7: on the buffer FileHeader("PF", 0, 0, 16, X) + ChunkHeader(magic Y,  *)
(* nextChunkOffset 8, version 1, headerSize 12, descriptorOffset 0) + 8    *)
(* bytes, in a container of tag X, chunk(Y, size) returns a view that      *)
(* starts at the first of the 8 bytes, and chunk(Z, size) returns absent   *)
(* for every other Z.  As claimed the view has size 8; the code gives it   *)
(* size 4 = (8 + 8) - 12.                                                  *)
(***************************************************************************)
IsScenario(in) ==
    /\ in.cut = 0
    /\ Len(in.table) = 1
    /\ in.table[1].nextChunkOffset = << 8, 0 >>
    /\ in.table[1].version = 1
    /\ in.table[1].headerSize = 12
    /\ in.table[1].descriptorOffset = << 0, 0 >>
    /\ in.table[1].body = 8
    /\ in.bytes = FileHeaderBytes(80, 70, 0, 0, 16, TFileType)
                    \o Bytes32(in.table[1].magic)
                    \o << 8, 0, 0, 0, 1, 0, 12, 0, 0, 0, 0, 0 >> \o Filler(1, 8)

ScenarioLookup(size) ==
    (RawLookup /\ IsScenario(Given)) =>
        IF call.id = Given.table[1].magic
        THEN /\ call.r.kind = "found"
             /\ call.r.buf = m_data[call.c]
             /\ call.r.off = 12 + 16
             /\ call.r.size = FromNat(size, 2)
        ELSE call.r.kind = "absent" /\ call.r.size = << 0, 0 >>

\* the claim as made: a view of size 8
C7_ScenarioAsClaimed == ScenarioLookup(8)

\* the claim as amended: a view of size 4
C7_ScenarioPayloadIsSpanMinusHeaderSize == ScenarioLookup(4)

C7_Witness ==
    /\ RawLookup /\ IsScenario(Given)
    /\ call.id = Given.table[1].magic
    /\ call.r.kind = "found"

(***************************************************************************)
(* C8: when the chunk carrying id declares a headerSize greater than its   *)
(* span (nextChunkOffset + 8), chunk(id, size) returns absent: it never    *)
(* returns that chunk with a length wrapped modulo 2^32.                   *)
(***************************************************************************)
C8_NoUnderflowedLength ==
    (RawLookup /\ call.r.kind = "found") =>
        LET bytes == heap[m_data[call.c]]
            at    == call.r.off - 16
        IN  ~Less(Span(ReadU32(bytes, at + 4)), FromNat(ReadU16(bytes, at + 10), 5))

(***************************************************************************)
(* C9: chunk(id, size) terminates for every 32-bit nextChunkOffset: the    *)
(* span never wraps to 0, the position strictly increases, and the loop    *)
(* ends after at most (buffer size - 12) / 8 iterations.                   *)
(***************************************************************************)
C9_ScanTerminates ==
    RawLookup =>
        /\ call.r.kind \in {"found", "absent"}
        /\ call.r.iters <= (Len(heap[m_data[call.c]]) - 12) \div 8

(***************************************************************************)
(* C1: assign(data, size) with data null, size 0, size below the 12 bytes  *)
(* of a FileHeader, magic other than 'P','F' or a contentType other than   *)
(* the tag returns false and leaves the object's buffer handle, the        *)
(* buffers' bytes, its header view, type() and chunk(id) for every id what *)
(* they were.                                                              *)
(***************************************************************************)
Refused(in) ==
    \/ in.isNull
    \/ in.size = 0
    \/ in.size < 12
    \/ in.bytes[1] # 80
    \/ in.bytes[2] # 70
    \/ ReadU32(in.bytes, 8) # TFileType

SameLookups(c) ==
    \A id \in LookupIds :
        chunk(m_header'[c], m_data'[c], heap', K, id) = chunk(m_header[c], m_data[c], heap, K, id)

C1_RefusedAssignChangesNothing ==
    [][\A c \in Containers :
          (\E in \in LifeInputs : Refused(in) /\ Assign(c, in)) =>
              /\ call'.ok = FALSE
              /\ m_data'[c] = m_data[c]
              /\ m_header'[c] = m_header[c]
              /\ heap' = heap
              /\ type(m_header'[c]) = type(m_header[c])
              /\ SameLookups(c)]_vars

\* an assign refused by an object that holds validated data
C1_Witness ==
    /\ call.op = "assign" /\ ~call.ok
    /\ Loaded(call.c)

(***************************************************************************)
(* C4: when the raw lookup returns absent, chunk<Id>() returns the empty   *)
(* result and does not run the registry's constructor; the constructor     *)
(* runs only when the raw lookup found a chunk, on the pointer and length  *)
(* it returned.                                                            *)
(***************************************************************************)
C4_AbsentMakesNoRecord ==
    call.op = "chunk<TId>" =>
        /\ call.r.kind = "absent" => call.made = << >>
        /\ call.made # << >> =>
              /\ call.r.kind = "found"
              /\ call.made = << [buf |-> call.r.buf, off |-> call.r.off, size |-> call.r.size] >>

(***************************************************************************)
(* C5: for a loaded container A and a copy B of it, a later assign or load *)
(* on A, successful or not, leaves B's buffer handle, B's bytes, B's       *)
(* header view, B.type() and every chunk view of B (its bytes and length)  *)
(* unchanged; after a successful one A owns a newly allocated buffer, not  *)
(* the one B still holds.                                                  *)
(***************************************************************************)
Isolated(a) ==
    \A b \in Sharing(a) :
        m_header[a] # NULL =>
            /\ m_data'[b] = m_data[b]
            /\ m_header'[b] = m_header[b]
            /\ m_data[b] \in DOMAIN heap'
            /\ heap'[m_data[b]] = heap[m_data[b]]
            /\ type(m_header'[b]) = type(m_header[b])
            /\ SameLookups(b)
            /\ \A id \in LookupIds :
                  LET v == chunk(m_header[b], m_data[b], heap, K, id)
                  IN  ViewBytes(heap', v) = ViewBytes(heap, v)
            /\ call'.ok => (m_data'[a] \notin DOMAIN heap /\ m_data'[a] # m_data[b])

C5_ReassignLeavesCopiesAlone ==
    [][\A a \in Containers :
          ((\E in \in LifeInputs : Assign(a, in)) \/ (\E f \in Files : Load(a, f)))
              => Isolated(a)]_vars

\* after a successful assign on an object whose buffer a copy shared: the
\* copy still holds the old bytes, the object new ones
C5_Witness ==
    /\ call.op = "assign" /\ call.ok
    /\ \E b \in call.shared :
          /\ Loaded(b)
          /\ m_data[b] # m_data[call.c]
          /\ heap[m_data[b]] # heap[m_data[call.c]]
          /\ \E id \in LookupIds : chunk(m_header[b], m_data[b], heap, K, id).kind = "found"

(***************************************************************************)
(* C6: in every state reached from default construction by assign calls,   *)
(* copy constructions and copy assignments, type() is the tag exactly when *)
(* the buffer is non-empty and 0 otherwise; a non-empty buffer has at      *)
(* least 12 bytes, begins with 'P','F', has contentType equal to the tag,  *)
(* and the header view is at the first byte of the buffer the object       *)
(* holds.                                                                  *)
(***************************************************************************)
C6_TypeIffBufferHoldsAValidHeader ==
    \A c \in alive :
        /\ m_data[c] \in DOMAIN heap
        /\ LET bytes == heap[m_data[c]]
           IN  /\ (type(m_header[c]) = TFileType) <=> (Len(bytes) # 0)
               /\ Len(bytes) = 0 => type(m_header[c]) = << 0, 0 >>
               /\ Len(bytes) # 0 =>
                     /\ Len(bytes) >= 12
                     /\ bytes[1] = 80 /\ bytes[2] = 70
                     /\ ReadU32(bytes, 8) = TFileType
                     /\ m_header[c] = m_data[c]

\* a default-constructed object, copy-assigned from a loaded one, answers the
\* tag and views the buffer the two now share
C6_Witness ==
    /\ call.op = "operator=" /\ call.other # call.c
    /\ Loaded(call.c)
    /\ m_data[call.c] = m_data[call.other]
    /\ type(m_header[call.c]) = TFileType

(***************************************************************************)
(* C10: after any constructor and any later load, assign or copy           *)
(* assignment, the object holds a non-null buffer handle, so that copying  *)
(* from it never reads through a null handle.                              *)
(***************************************************************************)
C10_HandleIsNeverNull ==
    /\ \A c \in alive : m_data[c] # NULL
    /\ fault # "null_deref"
====
